---------------------------- MODULE Spec2Model ----------------------------
(***************************************************************************)
(* A model of timezones.py: the two-column time zone converter.            *)
(*                                                                         *)
(* Representation of Python values.                                        *)
(*   - A Python str is a sequence of tokens.  The token " " is one         *)
(*     whitespace character; every other token is a run of characters      *)
(*     without leading or trailing whitespace ("a", "UTC",                 *)
(*     "Delhi, India").  str.strip() and str.lower() work on the tokens.   *)
(*   - A value that the code does not know to be a str (a value of the     *)
(*     location directory, a column's current_tz) is a record              *)
(*     [t |-> type, s |-> str]; for t = "str" s is the string itself, for  *)
(*     t = "int" s is its decimal text.                                    *)
(*   - A dict is the sequence of its <<key, value>> items in insertion     *)
(*     order, keys pairwise different.                                     *)
(*   - An instant or a naive datetime is a number of minutes since         *)
(*     2026-01-01 00:00; a date is a number of days since 2026-01-01.      *)
(***************************************************************************)
EXTENDS Integers, Sequences, FiniteSets, TLC

VARIABLES
  today,   \* datetime.now(pytz.utc).date(), days since 2026-01-01
  file,    \* known_locations.json
  dicts,   \* the dict objects on the heap, by reference
  win,     \* MainWindow: known_locations (a reference)
  col,     \* the two TimeColumn widgets
  dlg,     \* the KnownLocationsDialog
  stack,   \* the handlers running, the innermost last; empty: the event loop waits
  ui,      \* the user action being handled, and what its handling did so far
  crashed, \* an exception left a slot: PyQt6 aborts the process
  conv,    \* harness of _convert_time: arguments, result, result of the way back
  lk,      \* harness of find_timezone_for_location_text
  ld,      \* harness of load_known_locations
  pt       \* harness of parse_time_string

vars == <<today, file, dicts, win, col, dlg, stack, ui, crashed, conv, lk, ld, pt>>
gui == <<dicts, win, col, dlg, stack, ui, crashed>>

\* Bounds of the inputs.
MaxTextLen == 3      \* tokens of an entered location text
MaxEntries == 2      \* entries of a directory or of the stored object

(***************************************************************************)
(* The timezone database (pytz), year 2026.                                *)
(***************************************************************************)
MinutesPerDay == 24 * 60

\* pytz's _utc_transition_times / _transition_info of a zone, cut to the
\* entries that matter in 2026: at = the UTC minute the entry starts to
\* apply, off = utcoffset in minutes, dst = bool(_dst), the truth value
\* localize compares with is_dst (a saving other than zero).
TzData ==
  [z \in {"UTC", "America/New_York", "America/Los_Angeles", "Asia/Kolkata",
          "Europe/London", "Australia/Lord_Howe", "Europe/Dublin", "Asia/Tokyo",
          "Australia/Sydney", "America/Chicago", "Europe/Berlin", "Europe/Paris"} |->
     CASE z = "UTC" ->
            << [at |-> -1000000000, off |-> 0, dst |-> FALSE] >>
       [] z = "America/New_York" ->
            << [at |-> -1000000000, off |-> -300, dst |-> FALSE],
               [at |-> 95460,  off |-> -240, dst |-> TRUE],     \* 2026-03-08 07:00 UTC
               [at |-> 438120, off |-> -300, dst |-> FALSE] >>  \* 2026-11-01 06:00 UTC
       [] z = "America/Los_Angeles" ->
            << [at |-> -1000000000, off |-> -480, dst |-> FALSE],
               [at |-> 95640,  off |-> -420, dst |-> TRUE],     \* 2026-03-08 10:00 UTC
               [at |-> 438300, off |-> -480, dst |-> FALSE] >>  \* 2026-11-01 09:00 UTC
       [] z = "Asia/Kolkata" ->
            << [at |-> -1000000000, off |-> 330, dst |-> FALSE] >>
       [] z = "Europe/London" ->
            << [at |-> -1000000000, off |-> 0, dst |-> FALSE],
               [at |-> 125340, off |-> 60, dst |-> TRUE],       \* 2026-03-29 01:00 UTC
               [at |-> 427740, off |-> 0, dst |-> FALSE] >>     \* 2026-10-25 01:00 UTC
       [] z = "Australia/Lord_Howe" ->
            << [at |-> -1000000000, off |-> 660, dst |-> TRUE],
               [at |-> 134820, off |-> 630, dst |-> FALSE],     \* 2026-04-04 15:00 UTC
               [at |-> 396930, off |-> 660, dst |-> TRUE] >>    \* 2026-10-03 15:30 UTC
       [] z = "Europe/Dublin" ->
            \* Ireland's standard time is the summer one (IST, _dst = 0); the
            \* winter GMT is the entry with a saving of -1:00, a true _dst
            << [at |-> -1000000000, off |-> 0, dst |-> TRUE],
               [at |-> 125340, off |-> 60, dst |-> FALSE],      \* 2026-03-29 01:00 UTC
               [at |-> 427740, off |-> 0, dst |-> TRUE] >>      \* 2026-10-25 01:00 UTC
       [] z = "Asia/Tokyo" ->
            << [at |-> -1000000000, off |-> 540, dst |-> FALSE] >>
       [] z = "Australia/Sydney" ->
            << [at |-> -1000000000, off |-> 660, dst |-> TRUE],
               [at |-> 134880, off |-> 600, dst |-> FALSE],     \* 2026-04-04 16:00 UTC
               [at |-> 396960, off |-> 660, dst |-> TRUE] >>    \* 2026-10-03 16:00 UTC
       [] z = "America/Chicago" ->
            << [at |-> -1000000000, off |-> -360, dst |-> FALSE],
               [at |-> 95520,  off |-> -300, dst |-> TRUE],     \* 2026-03-08 08:00 UTC
               [at |-> 438180, off |-> -360, dst |-> FALSE] >>  \* 2026-11-01 07:00 UTC
       [] z \in {"Europe/Berlin", "Europe/Paris"} ->
            << [at |-> -1000000000, off |-> 60, dst |-> FALSE],
               [at |-> 125340, off |-> 120, dst |-> TRUE],      \* 2026-03-29 01:00 UTC
               [at |-> 427740, off |-> 60, dst |-> FALSE] >> ]  \* 2026-10-25 01:00 UTC

\* pytz.all_timezones
all_timezones == DOMAIN TzData

PyStr(s) == [t |-> "str", s |-> s]
PyInt(s) == [t |-> "int", s |-> s]
PyList == [t |-> "list", s |-> <<>>]
PyTuple(v) == [t |-> "tuple", s |-> v]
None == [t |-> "NoneType", s |-> <<>>]

\* pytz.timezone(zone): the zone's name in the database, or "" when the
\* lookup raises UnknownTimeZoneError (or any other exception: a value that
\* is no str).  The lookup is case-insensitive; an id is one token here,
\* spelled as in the list or in lower case.
CaseInsensitiveZone(tok) ==
  CASE tok = "utc" -> "UTC"
    [] tok = "america/new_york" -> "America/New_York"
    [] tok = "america/los_angeles" -> "America/Los_Angeles"
    [] tok = "asia/kolkata" -> "Asia/Kolkata"
    [] tok = "europe/london" -> "Europe/London"
    [] tok = "australia/lord_howe" -> "Australia/Lord_Howe"
    [] tok = "europe/dublin" -> "Europe/Dublin"
    [] tok = "asia/tokyo" -> "Asia/Tokyo"
    [] tok = "australia/sydney" -> "Australia/Sydney"
    [] tok = "america/chicago" -> "America/Chicago"
    [] tok = "europe/berlin" -> "Europe/Berlin"
    [] tok = "europe/paris" -> "Europe/Paris"
    [] OTHER -> tok

timezone(zone) ==
  IF zone.t = "str" /\ Len(zone.s) = 1
       /\ CaseInsensitiveZone(zone.s[1]) \in all_timezones
  THEN CaseInsensitiveZone(zone.s[1])
  ELSE ""

\* bisect_right(self._utc_transition_times, dt): how many entries start at
\* or before dt.
bisect_right(z, dt) == Cardinality({i \in 1..Len(TzData[z]) : TzData[z][i].at <= dt})

\* The _transition_info entry pytz looks up for dt:
\* idx = max(0, bisect_right(self._utc_transition_times, dt) - 1)
TransitionInfo(z, dt) ==
  LET n == bisect_right(z, dt)
  IN TzData[z][IF n - 1 > 0 THEN n ELSE 1]

\* DstTzInfo.fromutc / normalize: the entry that applies at the UTC instant.
fromutc(z, utc) == TransitionInfo(z, utc)

\* The first loop of DstTzInfo.localize: for dt one day back and one day on,
\* looked up as if it were UTC, the entry found is kept when the wall clock
\* it gives to the instant dt - off is dt again (tzinfo.normalize).
possible_loc_dt(z, dt) ==
  { fromutc(z, dt - c.off) :
      c \in { c \in {TransitionInfo(z, dt - MinutesPerDay),
                      TransitionInfo(z, dt + MinutesPerDay)} :
                fromutc(z, dt - c.off).off = c.off } }

MinOff(S) == CHOOSE p \in S : \A q \in S : p.off <= q.off

\* DstTzInfo.localize(dt, is_dst=False): the utcoffset given to the naive
\* datetime dt.  No candidate: the time never happened (spring forward), and
\* pytz localizes six hours earlier and adds the six hours back, keeping
\* that tzinfo.  Two candidates (fall back): those with dst = False, and of
\* them the latest instant, which is the smallest offset.
\* Mutant: localize(dt, is_dst=True), which winds the clock forward in a gap
\* and takes the daylight-time candidate of an overlap.
RECURSIVE localize_is_dst_True(_, _)
localize_is_dst_True(z, dt) ==
  LET possible == possible_loc_dt(z, dt)
      filtered == {p \in possible : p.dst = TRUE}
  IN IF Cardinality(possible) = 1 THEN (CHOOSE p \in possible : TRUE).off
     ELSE IF possible = {} THEN localize_is_dst_True(z, dt + 6 * 60)
     ELSE IF Cardinality(filtered) = 1 THEN (CHOOSE p \in filtered : TRUE).off
     ELSE (CHOOSE p \in (IF filtered = {} THEN possible ELSE filtered) :
             \A q \in (IF filtered = {} THEN possible ELSE filtered) : p.off >= q.off).off

RECURSIVE localize(_, _)
localize(z, dt) ==
  LET possible == possible_loc_dt(z, dt)
      filtered == {p \in possible : p.dst = FALSE}
  IN IF Cardinality(possible) = 1 THEN (CHOOSE p \in possible : TRUE).off
     ELSE IF possible = {} THEN localize(z, dt - 6 * 60)
     ELSE IF Cardinality(filtered) = 1 THEN (CHOOSE p \in filtered : TRUE).off
     ELSE MinOff(IF filtered = {} THEN possible ELSE filtered).off

\* Mutant: an unresolvable zone is taken to be UTC instead of failing closed.
_convert_time_unknown_as_utc(hour, minute, from_tz, to_tz) ==
  LET from_zone == IF timezone(from_tz) = "" THEN "UTC" ELSE timezone(from_tz)
      to_zone == IF timezone(to_tz) = "" THEN "UTC" ELSE timezone(to_tz)
      naive == today * MinutesPerDay + hour * 60 + minute
      localized == naive - localize(from_zone, naive)
      converted == localized + fromutc(to_zone, localized).off
  IN << (converted % MinutesPerDay) \div 60, converted % 60 >>

\* Mutant: only the hour is converted, as if every offset were whole hours.
_convert_time_whole_hours(hour, minute, from_tz, to_tz) ==
  LET from_zone == timezone(from_tz)
      to_zone == timezone(to_tz)
  IN IF from_zone = "" \/ to_zone = "" THEN <<hour, minute>>
     ELSE LET naive == today * MinutesPerDay + hour * 60 + minute
              localized == naive - localize(from_zone, naive)
              converted == localized + fromutc(to_zone, localized).off
          IN << (converted % MinutesPerDay) \div 60, minute >>

\* Mutant: the destination offset is subtracted instead of added.
_convert_time_sign(hour, minute, from_tz, to_tz) ==
  LET from_zone == timezone(from_tz)
      to_zone == timezone(to_tz)
  IN IF from_zone = "" \/ to_zone = "" THEN <<hour, minute>>
     ELSE LET naive == today * MinutesPerDay + hour * 60 + minute
              localized == naive - localize(from_zone, naive)
              converted == localized - fromutc(to_zone, localized).off
          IN << (converted % MinutesPerDay) \div 60, converted % 60 >>

\* MainWindow._convert_time.  The clock is read inside, as in the code.
_convert_time(hour, minute, from_tz, to_tz) ==
  LET from_zone == timezone(from_tz)
      to_zone == timezone(to_tz)
  IN IF from_zone = "" \/ to_zone = "" THEN <<hour, minute>>
     ELSE LET naive == today * MinutesPerDay + hour * 60 + minute
              localized == naive - localize(from_zone, naive)   \* as UTC
              converted == localized + fromutc(to_zone, localized).off
          IN << (converted % MinutesPerDay) \div 60, converted % 60 >>

(***************************************************************************)
(* Strings and dicts.                                                      *)
(***************************************************************************)
\* str.lower() on one token.
LowerTok(tok) ==
  CASE tok = "A" -> "a"
    [] tok = "B" -> "b"
    [] tok = "Atlantis" -> "atlantis"
    [] tok = "New Location" -> "new location"
    [] tok = "New York, USA" -> "new york, usa"
    [] tok = "London, UK" -> "london, uk"
    [] tok = "Dublin, Ireland" -> "dublin, ireland"
    [] tok = "Delhi, India" -> "delhi, india"
    [] tok = "Tokyo, Japan" -> "tokyo, japan"
    [] tok = "Sydney, Australia" -> "sydney, australia"
    [] tok = "Los Angeles, USA" -> "los angeles, usa"
    [] tok = "Chicago, USA" -> "chicago, usa"
    [] tok = "Berlin, Germany" -> "berlin, germany"
    [] tok = "Paris, France" -> "paris, france"
    [] tok = "UTC" -> "utc"
    [] tok = "America/New_York" -> "america/new_york"
    [] tok = "America/Los_Angeles" -> "america/los_angeles"
    [] tok = "Asia/Kolkata" -> "asia/kolkata"
    [] tok = "Europe/London" -> "europe/london"
    [] tok = "Australia/Lord_Howe" -> "australia/lord_howe"
    [] tok = "Europe/Dublin" -> "europe/dublin"
    [] tok = "Asia/Tokyo" -> "asia/tokyo"
    [] tok = "Australia/Sydney" -> "australia/sydney"
    [] tok = "America/Chicago" -> "america/chicago"
    [] tok = "Europe/Berlin" -> "europe/berlin"
    [] tok = "Europe/Paris" -> "europe/paris"
    [] tok = "Not/AZone" -> "not/azone"
    [] OTHER -> tok

lower(s) == [i \in 1..Len(s) |-> LowerTok(s[i])]

\* str.strip(): without the whitespace at both ends.
strip(s) ==
  LET keep == {i \in 1..Len(s) : s[i] # " "}
  IN IF keep = {} THEN <<>>
     ELSE SubSeq(s, CHOOSE i \in keep : \A j \in keep : i <= j,
                    CHOOSE i \in keep : \A j \in keep : i >= j)

\* d[k] = v on a dict: a key it has keeps its place, a new one goes last.
DictSet(d, k, v) ==
  IF \E i \in 1..Len(d) : d[i][1] = k
  THEN [i \in 1..Len(d) |-> IF d[i][1] = k THEN <<k, v>> ELSE d[i]]
  ELSE Append(d, <<k, v>>)

\* The dict built by assigning the pairs in order (json.load of an object,
\* the loop of KnownLocationsDialog.accept).
RECURSIVE DictFromPairs(_)
DictFromPairs(pairs) ==
  IF pairs = <<>> THEN <<>>
  ELSE DictSet(DictFromPairs(SubSeq(pairs, 1, Len(pairs) - 1)),
               pairs[Len(pairs)][1], pairs[Len(pairs)][2])

Entry(name, tz) == <<<<name>>, PyStr(<<tz>>)>>

DEFAULT_KNOWN_LOCATIONS ==
  << Entry("New York, USA", "America/New_York"),
     Entry("London, UK", "Europe/London"),
     Entry("Dublin, Ireland", "Europe/Dublin"),
     Entry("Delhi, India", "Asia/Kolkata"),
     Entry("Tokyo, Japan", "Asia/Tokyo"),
     Entry("Sydney, Australia", "Australia/Sydney"),
     Entry("Los Angeles, USA", "America/Los_Angeles"),
     Entry("Chicago, USA", "America/Chicago"),
     Entry("Berlin, Germany", "Europe/Berlin"),
     Entry("Paris, France", "Europe/Paris") >>

(***************************************************************************)
(* The storage file.  Its content is a JSON document: an object with its   *)
(* members in the order of the text (a key may repeat), another JSON       *)
(* value, or text that is no JSON at all.                                  *)
(***************************************************************************)
JsonObject(items) == [k |-> "object", items |-> items]
JsonOther(k) == [k |-> k, items |-> <<>>]

\* json.load(f): the dict of an object (the last of equal keys wins), a
\* value that is no dict, or a JSONDecodeError.
json_load(content) ==
  CASE content.k = "object" -> [t |-> "dict", d |-> DictFromPairs(content.items)]
    [] content.k = "garbage" -> [t |-> "JSONDecodeError", d |-> <<>>]
    [] OTHER -> [t |-> content.k, d |-> <<>>]

\* Mutant: every value of the loaded dict must be a str.
load_known_locations_flat(f) ==
  IF f.exists /\ f.readable /\ json_load(f.content).t = "dict"
       /\ \A i \in 1..Len(json_load(f.content).d) : json_load(f.content).d[i][2].t = "str"
  THEN json_load(f.content).d
  ELSE DEFAULT_KNOWN_LOCATIONS

\* load_known_locations(), reading file f.
load_known_locations(f) ==
  IF f.exists
  THEN IF ~f.readable THEN DEFAULT_KNOWN_LOCATIONS              \* open() raises
       ELSE LET data == json_load(f.content)
            IN IF data.t = "JSONDecodeError" THEN DEFAULT_KNOWN_LOCATIONS
               ELSE IF data.t = "dict" THEN data.d
               ELSE DEFAULT_KNOWN_LOCATIONS
  ELSE DEFAULT_KNOWN_LOCATIONS

\* save_known_locations that writes nothing.
save_known_locations_skipped(f, locations, outcome) == f

\* save_known_locations(locations) on file f.  The write succeeds, or
\* open(..., "w") raises and leaves the file as it was, or json.dump raises
\* after open has emptied the file; the error is swallowed.  open(..., "w")
\* creates a file that was missing, and the new file can be read; a file
\* that was there keeps its permissions.
save_known_locations(f, locations, outcome) ==
  CASE outcome = "written" ->
         [exists |-> TRUE, readable |-> IF f.exists THEN f.readable ELSE TRUE,
          content |-> JsonObject(locations)]
    [] outcome = "not opened" -> f
    [] outcome = "cut short" ->
         [exists |-> TRUE, readable |-> IF f.exists THEN f.readable ELSE TRUE,
          content |-> JsonOther("garbage")]

\* Mutant: any name that contains the text matches.
RECURSIVE find_substring(_, _, _)
find_substring(text_norm, known_locations, i) ==
  IF i > Len(known_locations) THEN <<None, None>>
  ELSE IF \E a \in 1..Len(known_locations[i][1]) + 1 :
            \E b \in (a - 1)..Len(known_locations[i][1]) :
               SubSeq(lower(known_locations[i][1]), a, b) = text_norm
       THEN <<known_locations[i][2], PyStr(known_locations[i][1])>>
       ELSE find_substring(text_norm, known_locations, i + 1)
find_timezone_substring(text, known_locations) ==
  find_substring(lower(strip(text)), known_locations, 1)

\* The loop of find_timezone_for_location_text from item i on.
RECURSIVE find_from(_, _, _)
find_from(text_norm, known_locations, i) ==
  IF i > Len(known_locations) THEN <<None, None>>
  ELSE IF lower(known_locations[i][1]) = text_norm
       THEN <<known_locations[i][2], PyStr(known_locations[i][1])>>
       ELSE find_from(text_norm, known_locations, i + 1)

find_timezone_for_location_text(text, known_locations) ==
  find_from(lower(strip(text)), known_locations, 1)

(***************************************************************************)
(* Harness of _convert_time: a call there, and a call back on the result.  *)
(***************************************************************************)
\* 2026-01-15, 03-07, 03-08 (spring forward in the USA), 03-09,
\* 03-29 (spring forward in London), 07-15, 10-04 (spring forward on Lord
\* Howe, by half an hour), 10-25 (fall back in London and Dublin), 10-31,
\* 11-01 (fall back in the USA)
Dates == {14, 65, 66, 67, 87, 195, 276, 297, 303, 304}

ZoneArgs ==
  {PyStr(<<z>>) : z \in {"UTC", "America/New_York", "America/Los_Angeles",
                         "Asia/Kolkata", "Europe/London", "Australia/Lord_Howe",
                         "Europe/Dublin", "Not/AZone"}}

convIdle == [pc |-> "off", hour |-> 0, minute |-> 0, from_tz |-> None,
             to_tz |-> None, res |-> <<0, 0>>, back |-> <<0, 0>>]
lkIdle == [pc |-> "off", text |-> <<>>, known_locations |-> <<>>,
           result |-> <<None, None>>]
ldIdle == [pc |-> "off", result |-> <<>>]
ptIdle == [pc |-> "off", time_str |-> <<>>, use_24h |-> TRUE, result |-> None]
NoFile == [exists |-> FALSE, readable |-> FALSE, content |-> JsonOther("garbage")]
Columns == {"left", "right"}
NoFrame == <<>>
uiIdle == [kind |-> "none", c |-> "left", text |-> <<>>, syncs |-> 0, emits |-> 0,
           prog_emits |-> 0, warnings |-> 0]
guiOff ==
  /\ dicts = <<>> /\ win = [known_locations |-> 0]
  /\ col = [c \in Columns |-> [known_locations |-> 0]]
  /\ dlg = [open |-> FALSE] /\ stack = NoFrame /\ ui = uiIdle /\ crashed = FALSE

InitConvert ==
  /\ today \in Dates
  /\ file = NoFile /\ lk = lkIdle /\ ld = ldIdle /\ pt = ptIdle /\ guiOff
  /\ conv \in [pc : {"args"}, hour : 0..23, minute : 0..59,
               from_tz : ZoneArgs, to_tz : ZoneArgs,
               res : {<<0, 0>>}, back : {<<0, 0>>}]

Convert ==
  /\ conv.pc = "args"
  /\ conv' = [conv EXCEPT !.pc = "there",
                !.res = _convert_time(conv.hour, conv.minute, conv.from_tz, conv.to_tz)]
  /\ UNCHANGED <<today, file, lk, ld, gui, pt>>

ConvertBack ==
  /\ conv.pc = "there"
  /\ conv' = [conv EXCEPT !.pc = "back",
                !.back = _convert_time(conv.res[1], conv.res[2], conv.to_tz, conv.from_tz)]
  /\ UNCHANGED <<today, file, lk, ld, gui, pt>>

NextConvert == Convert \/ ConvertBack

SpecConvert == InitConvert /\ [][NextConvert]_vars

(***************************************************************************)
(* Harness of find_timezone_for_location_text.                             *)
(***************************************************************************)
SeqsUpTo(S, n) == UNION {[1..k -> S] : k \in 0..n}

Texts ==
  SeqsUpTo({"a", "A", "b", " "}, MaxTextLen)
    \cup {<<" ", " ", "delhi, india", " ", " ">>, <<"Atlantis">>}

NamePool == {<<"a">>, <<"A">>, <<"a", "b">>, <<"a", " ", "B">>, <<" ", "a">>}

Directories ==
  {d \in SeqsUpTo(NamePool \X {PyStr(<<"UTC">>), PyStr(<<"Asia/Kolkata">>)}, MaxEntries) :
     \A i, j \in 1..Len(d) : d[i][1] = d[j][1] => i = j}
    \cup {DEFAULT_KNOWN_LOCATIONS}

InitLookup ==
  /\ today = 14 /\ file = NoFile /\ conv = convIdle /\ ld = ldIdle /\ pt = ptIdle /\ guiOff
  /\ lk \in [pc : {"args"}, text : Texts, known_locations : Directories,
             result : {<<None, None>>}]

Lookup ==
  /\ lk.pc = "args"
  /\ lk' = [lk EXCEPT !.pc = "done",
              !.result = find_timezone_for_location_text(lk.text, lk.known_locations)]
  /\ UNCHANGED <<today, file, conv, ld, gui, pt>>

NextLookup == Lookup

SpecLookup == InitLookup /\ [][NextLookup]_vars

(***************************************************************************)
(* Harness of load_known_locations.                                        *)
(***************************************************************************)
JsonValues == {PyStr(<<"UTC">>), PyStr(<<>>), PyInt(<<"5">>), None, PyList}
JsonKeys == {<<"a">>, <<"A">>, <<"Tokyo, Japan">>}

Contents ==
  {JsonObject(items) : items \in SeqsUpTo(JsonKeys \X JsonValues, MaxEntries)}
    \cup {JsonOther(k) : k \in {"garbage", "list", "int", "str", "NoneType"}}

InitLoad ==
  /\ today = 14 /\ conv = convIdle /\ lk = lkIdle /\ guiOff
  /\ file \in [exists : BOOLEAN, readable : BOOLEAN, content : Contents]
  /\ ld = [pc |-> "start", result |-> <<>>] /\ pt = ptIdle

Load ==
  /\ ld.pc = "start"
  /\ ld' = [pc |-> "done", result |-> load_known_locations(file)]
  /\ UNCHANGED <<today, file, conv, lk, gui, pt>>

NextLoad == Load

SpecLoad == InitLoad /\ [][NextLoad]_vars

(***************************************************************************)
(* parse_time_string.  Here a str is the sequence of its characters.       *)
(* datetime.strptime turns the format into a regular expression, matches   *)
(* it at the start of the text ignoring case, and raises ValueError when   *)
(* nothing matches or when text is left over (C locale: am, pm).           *)
(***************************************************************************)
Digits == <<"0", "1", "2", "3", "4", "5", "6", "7", "8", "9">>

IsDigit(ch) == \E d \in 1..10 : Digits[d] = ch
DigitValue(ch) == (CHOOSE d \in 1..10 : Digits[d] = ch) - 1

\* The character at place i of s, "" past its end.
CharAt(s, i) == IF i \in 1..Len(s) THEN s[i] ELSE ""

\* The digit at place i of s is one of lo..hi.
DigitIn(s, i, lo, hi) ==
  IsDigit(CharAt(s, i)) /\ DigitValue(CharAt(s, i)) \in lo..hi

\* re.IGNORECASE on the letters of am and pm.
IgnoreCase(ch) ==
  CASE ch = "A" -> "a" [] ch = "P" -> "p" [] ch = "M" -> "m" [] OTHER -> ch

\* The lengths of the text at place i that %H, 2[0-3]|[0-1]\d|\d, matches,
\* in the order the alternatives are tried.
MatchH(s, i) ==
  (IF DigitIn(s, i, 2, 2) /\ DigitIn(s, i + 1, 0, 3) THEN <<2>> ELSE <<>>)
  \o (IF DigitIn(s, i, 0, 1) /\ DigitIn(s, i + 1, 0, 9) THEN <<2>> ELSE <<>>)
  \o (IF DigitIn(s, i, 0, 9) THEN <<1>> ELSE <<>>)

\* The same for %I, 1[0-2]|0[1-9]|[1-9].
MatchI(s, i) ==
  (IF DigitIn(s, i, 1, 1) /\ DigitIn(s, i + 1, 0, 2) THEN <<2>> ELSE <<>>)
  \o (IF DigitIn(s, i, 0, 0) /\ DigitIn(s, i + 1, 1, 9) THEN <<2>> ELSE <<>>)
  \o (IF DigitIn(s, i, 1, 9) THEN <<1>> ELSE <<>>)

\* The same for %M, [0-5]\d|\d.
MatchM(s, i) ==
  (IF DigitIn(s, i, 0, 5) /\ DigitIn(s, i + 1, 0, 9) THEN <<2>> ELSE <<>>)
  \o (IF DigitIn(s, i, 0, 9) THEN <<1>> ELSE <<>>)

\* The number the digits of s from place i on, len of them, stand for.
Number(s, i, len) ==
  IF len = 1 THEN DigitValue(s[i]) ELSE 10 * DigitValue(s[i]) + DigitValue(s[i + 1])

\* How many blanks s has from place i on.
RECURSIVE Blanks(_, _)
Blanks(s, i) == IF CharAt(s, i) = " " THEN 1 + Blanks(s, i + 1) ELSE 0

\* The formats parse_time_string uses; %P is no directive of strptime.
Formats12 == <<"%I:%M %p", "%I:%M%p", "%I:%M %P", "%I:%M%P">>
BadDirective(fmt) == fmt \in {"%I:%M %P", "%I:%M%P"}
HasBlank(fmt) == fmt \in {"%I:%M %p", "%I:%M %P"}

ValueError == [ok |-> FALSE, hour |-> 0, minute |-> 0]

\* What the rest of the format matches once the hour, hl long, is read: a
\* colon, the minute and, for a 12-hour format, the blanks (one or more) and
\* am or pm.  The first of the results is the match of the regular expression.
AfterHour(s, fmt, hl) ==
  IF CharAt(s, 1 + hl) # ":" THEN <<>>
  ELSE LET mins == MatchM(s, 2 + hl)
           At(k) ==
             LET ml == mins[k]
                 after == 2 + hl + ml
                 blanks == IF HasBlank(fmt) THEN Blanks(s, after) ELSE 0
                 p == after + blanks
                 meridiem == <<IgnoreCase(CharAt(s, p)), IgnoreCase(CharAt(s, p + 1))>>
             IN IF fmt = "%H:%M"
                THEN [found |-> TRUE, hl |-> hl, ml |-> ml, end |-> after - 1, p |-> <<>>]
                ELSE [found |-> (HasBlank(fmt) => blanks >= 1)
                                  /\ meridiem \in {<<"a", "m">>, <<"p", "m">>},
                      hl |-> hl, ml |-> ml, end |-> p + 1, p |-> meridiem]
       IN SelectSeq([k \in 1..Len(mins) |-> At(k)], LAMBDA m : m.found)

\* datetime.strptime(s, fmt), as far as hour and minute go.
strptime(s, fmt) ==
  IF BadDirective(fmt) THEN ValueError
  ELSE LET hours == IF fmt = "%H:%M" THEN MatchH(s, 1) ELSE MatchI(s, 1)
           RECURSIVE All(_)
           All(k) == IF k > Len(hours) THEN <<>>
                     ELSE AfterHour(s, fmt, hours[k]) \o All(k + 1)
           matches == All(1)
       IN IF matches = <<>> THEN ValueError
          ELSE LET m == matches[1]
                   hour == Number(s, 1, m.hl)
                   minute == Number(s, 2 + m.hl, m.ml)
               IN IF m.end # Len(s) THEN ValueError   \* unconverted data remains
                  ELSE [ok |-> TRUE,
                        hour |-> CASE m.p = <<"a", "m">> -> IF hour = 12 THEN 0 ELSE hour
                                   [] m.p = <<"p", "m">> -> IF hour = 12 THEN 12 ELSE hour + 12
                                   [] OTHER -> hour,
                        minute |-> minute]

\* The loop of parse_time_string over the 12-hour formats: the first one
\* that parses decides.
RECURSIVE try_formats(_, _)
try_formats(s, k) ==
  IF k > Len(Formats12) THEN ValueError
  ELSE IF strptime(s, Formats12[k]).ok THEN strptime(s, Formats12[k])
  ELSE try_formats(s, k + 1)

\* parse_time_string that tries the first 12-hour format only.
parse_time_string_one_format(time_str, use_24h) ==
  LET s == strip(time_str)
      dt == IF use_24h THEN strptime(s, "%H:%M") ELSE strptime(s, Formats12[1])
  IN IF s = <<>> THEN None
     ELSE IF dt.ok THEN PyTuple(<<dt.hour, dt.minute>>)
     ELSE None

parse_time_string(time_str, use_24h) ==
  LET s == strip(time_str)
      dt == IF use_24h THEN strptime(s, "%H:%M") ELSE try_formats(s, 1)
  IN IF s = <<>> THEN None
     ELSE IF dt.ok THEN PyTuple(<<dt.hour, dt.minute>>)
     ELSE None

\* The texts parse_time_string is given: blanks, an hour, a colon, a
\* minute, blanks and a meridiem, each of them in several forms or missing.
HourTexts ==
  { <<>>, <<"0">>, <<"9">>, <<"0", "0">>, <<"0", "9">>, <<"1", "1">>, <<"1", "2">>,
    <<"1", "3">>, <<"2", "3">>, <<"2", "4">>, <<"2", "5">>, <<"0", "1", "1">> }
ColonTexts == { <<>>, <<":">> }
MinuteTexts ==
  { <<>>, <<"5">>, <<"0", "0">>, <<"4", "5">>, <<"5", "9">>, <<"6", "0">>, <<"0", "0", "5">> }
BlankTexts == { <<>>, <<" ">>, <<" ", " ">> }
MeridiemTexts ==
  { <<>>, <<"a", "m">>, <<"p", "m">>, <<"A", "M">>, <<"P", "M">>, <<"p", "M">>,
    <<"p">>, <<"x", "m">>, <<"p", "m", "x">> }
PadTexts == { <<>>, <<" ">> }

TimeTexts ==
  { pl \o h \o c \o m \o b \o ap \o pr :
      pl \in PadTexts, h \in HourTexts, c \in ColonTexts, m \in MinuteTexts,
      b \in BlankTexts, ap \in MeridiemTexts, pr \in PadTexts }

InitParse ==
  /\ today = 14 /\ file = NoFile /\ conv = convIdle /\ lk = lkIdle /\ ld = ldIdle
  /\ guiOff
  /\ pt \in [pc : {"args"}, time_str : TimeTexts, use_24h : BOOLEAN, result : {None}]

Parse ==
  /\ pt.pc = "args"
  /\ pt' = [pt EXCEPT !.pc = "done",
                      !.result = parse_time_string(pt.time_str, pt.use_24h)]
  /\ UNCHANGED <<today, file, conv, lk, ld, gui>>

NextParse == Parse

SpecParse == InitParse /\ [][NextParse]_vars

(***************************************************************************)
(* The window with its two columns.  A handler runs as a frame of the      *)
(* call stack; a signal that is emitted calls its slot at once (a direct   *)
(* connection), which is a frame pushed on top.  A frame is                *)
(* [fn, c, pc, tz, name, t]: the function, the column it works on, where   *)
(* it stands, and its arguments (a timezone value, a text, a time).        *)
(***************************************************************************)
Other(c) == IF c = "left" THEN "right" ELSE "left"

Frame(fn, c, tz, name, t) ==
  [fn |-> fn, c |-> c, pc |-> "start", tz |-> tz, name |-> name, t |-> t]

Top == stack[Len(stack)]
Rest == SubSeq(stack, 1, Len(stack) - 1)
\* The running frame moves to pc and calls callee.
Call(f, pc, callee) == Append(Append(Rest, [f EXCEPT !.pc = pc]), callee)
Goto(f, pc) == Append(Rest, [f EXCEPT !.pc = pc])

\* A truth test that lets every value pass.
Truthy_always(v) == TRUE

\* bool(v) of a directory value: a str that is not empty, an int other
\* than 0.
Truthy(v) == (v.t = "str" /\ v.s # <<>>) \/ (v.t = "int" /\ v.s # <<"0">>)

\* setCurrentText of an editable dropdown: any text is taken.
setCurrentText_editable(combo, text) == text

\* QComboBox.setCurrentText on the non-editable dropdown filled with
\* pytz.all_timezones: the text is selected when it is an item.
setCurrentText(combo, text) ==
  IF Len(text) = 1 /\ text[1] \in all_timezones THEN text ELSE combo

\* A set_time or set_timezone of column c is running.
InProgrammaticUpdate(c) ==
  \E i \in 1..Len(stack) :
     stack[i].c = c /\ stack[i].fn \in {"set_time", "set_timezone"}

\* Column c emits timeChanged or timezoneChanged.
Emitted(c) ==
  [ui EXCEPT !.emits = @ + 1,
             !.prog_emits = @ + (IF InProgrammaticUpdate(c) THEN 1 ELSE 0)]

StartOf(kind, c, text) ==
  [kind |-> kind, c |-> c, text |-> text, syncs |-> 0, emits |-> 0,
   prog_emits |-> 0, warnings |-> 0]

\* _on_time_changed without its test of suppress_signals.
_on_time_changed_unsuppressed(f) ==
  /\ f.fn = "_on_time_changed"
  /\ IF f.pc = "start"
     THEN /\ stack' = Call(f, "emitted", Frame("_sync_from", f.c, None, <<>>, <<0, 0>>))
          /\ ui' = Emitted(f.c)
     ELSE /\ stack' = Rest
          /\ ui' = ui
  /\ UNCHANGED <<today, file, dicts, win, col, dlg, crashed, conv, lk, ld, pt>>

\* TimeColumn._on_time_changed, the slot of time_edit.timeChanged; its
\* timeChanged signal is connected to MainWindow._on_left/right_time_changed,
\* which calls _sync_from_left/right.
_on_time_changed(f) ==
  /\ f.fn = "_on_time_changed"
  /\ IF f.pc = "start" /\ ~col[f.c].suppress_signals
     THEN /\ stack' = Call(f, "emitted", Frame("_sync_from", f.c, None, <<>>, <<0, 0>>))
          /\ ui' = Emitted(f.c)
     ELSE /\ stack' = Rest
          /\ ui' = ui
  /\ UNCHANGED <<today, file, dicts, win, col, dlg, crashed, conv, lk, ld, pt>>

\* TimeColumn._on_tz_combo_changed, the slot of tz_combo.currentTextChanged;
\* timezoneChanged is connected to MainWindow._on_left/right_tz_changed,
\* which calls _sync_from_left/right.
_on_tz_combo_changed(f) ==
  /\ f.fn = "_on_tz_combo_changed"
  /\ IF f.pc = "start" /\ ~col[f.c].suppress_signals
     THEN /\ col' = [col EXCEPT ![f.c].current_tz = PyStr(f.name)]
          /\ stack' = Call(f, "emitted", Frame("_sync_from", f.c, None, <<>>, <<0, 0>>))
          /\ ui' = Emitted(f.c)
     ELSE /\ stack' = Rest
          /\ UNCHANGED <<col, ui>>
  /\ UNCHANGED <<today, file, dicts, win, dlg, crashed, conv, lk, ld, pt>>

\* MainWindow._sync_from_left (f.c = "left") and _sync_from_right.
_sync_from(f) ==
  /\ f.fn = "_sync_from"
  /\ IF f.pc = "start"
     THEN LET t == col[f.c].time_edit
              r == _convert_time(t[1], t[2], col[f.c].current_tz,
                                 col[Other(f.c)].current_tz)
          IN /\ stack' = Call(f, "called", Frame("set_time", Other(f.c), None, <<>>, r))
             /\ ui' = [ui EXCEPT !.syncs = @ + 1]
     ELSE /\ stack' = Rest
          /\ ui' = ui
  /\ UNCHANGED <<today, file, dicts, win, col, dlg, crashed, conv, lk, ld, pt>>

\* TimeColumn.set_time(hour, minute); QTimeEdit.setTime emits timeChanged
\* when the time is another one.
set_time(f) ==
  /\ f.fn = "set_time"
  /\ IF f.pc = "start"
     THEN /\ col' = [col EXCEPT ![f.c].suppress_signals = TRUE,
                                ![f.c].time_edit = f.t]
          /\ stack' = IF col[f.c].time_edit # f.t
                      THEN Call(f, "finally",
                                Frame("_on_time_changed", f.c, None, <<>>, <<0, 0>>))
                      ELSE Goto(f, "finally")
     ELSE /\ col' = [col EXCEPT ![f.c].suppress_signals = FALSE]
          /\ stack' = Rest
  /\ UNCHANGED <<today, file, dicts, win, dlg, ui, crashed, conv, lk, ld, pt>>

\* TimeColumn.set_timezone(tzname, location_name); tzname is a str here.
set_timezone(f) ==
  /\ f.fn = "set_timezone"
  /\ IF f.pc = "start"
     THEN LET combo == setCurrentText(col[f.c].tz_combo, f.tz.s)
          IN /\ col' = [col EXCEPT ![f.c].suppress_signals = TRUE,
                                   ![f.c].current_tz = f.tz,
                                   ![f.c].tz_combo = combo]
             /\ stack' = IF combo # col[f.c].tz_combo
                         THEN Call(f, "finally",
                                   Frame("_on_tz_combo_changed", f.c, None, combo, <<0, 0>>))
                         ELSE Goto(f, "finally")
     ELSE /\ col' = [col EXCEPT ![f.c].suppress_signals = FALSE,
                                ![f.c].location_edit =
                                   IF f.name # <<>> THEN f.name ELSE @]
          /\ stack' = Rest
  /\ UNCHANGED <<today, file, dicts, win, dlg, ui, crashed, conv, lk, ld, pt>>

\* TimeColumn._on_location_entered, the slot of location_edit.editingFinished.
_on_location_entered(f) ==
  /\ f.fn = "_on_location_entered"
  /\ LET text == strip(col[f.c].location_edit)
         found == find_timezone_for_location_text(text, dicts[col[f.c].known_locations])
         tz == found[1]
         combo == setCurrentText(col[f.c].tz_combo, tz.s)
     IN CASE f.pc = "start" /\ text = <<>> ->
               /\ stack' = Rest
               /\ UNCHANGED <<col, ui, crashed>>
          [] f.pc = "start" /\ text # <<>> /\ ~Truthy(tz) ->
               \* QMessageBox.warning
               /\ ui' = [ui EXCEPT !.warnings = @ + 1]
               /\ stack' = Rest
               /\ UNCHANGED <<col, crashed>>
          [] f.pc = "start" /\ text # <<>> /\ Truthy(tz) /\ tz.t # "str" ->
               \* setCurrentText(tz) raises TypeError; the finally clause
               \* runs and the exception leaves the slot
               /\ col' = [col EXCEPT ![f.c].current_tz = tz,
                                     ![f.c].suppress_signals = FALSE]
               /\ stack' = <<>>
               /\ crashed' = TRUE
               /\ ui' = ui
          [] f.pc = "start" /\ text # <<>> /\ Truthy(tz) /\ tz.t = "str" ->
               /\ col' = [col EXCEPT ![f.c].suppress_signals = TRUE,
                                     ![f.c].current_tz = tz,
                                     ![f.c].tz_combo = combo]
               /\ stack' = IF combo # col[f.c].tz_combo
                           THEN Call([f EXCEPT !.name = found[2].s], "after_combo",
                                     Frame("_on_tz_combo_changed", f.c, None, combo, <<0, 0>>))
                           ELSE Goto([f EXCEPT !.name = found[2].s], "after_combo")
               /\ UNCHANGED <<ui, crashed>>
          [] f.pc = "after_combo" ->
               /\ col' = [col EXCEPT ![f.c].location_edit = f.name,
                                     ![f.c].suppress_signals = FALSE]
               /\ stack' = Call(f, "emitted", Frame("_sync_from", f.c, None, <<>>, <<0, 0>>))
               /\ ui' = Emitted(f.c)
               /\ UNCHANGED crashed
          [] f.pc = "emitted" ->
               /\ stack' = Rest
               /\ UNCHANGED <<col, ui, crashed>>
  /\ UNCHANGED <<today, file, dicts, win, dlg, conv, lk, ld, pt>>

\* on_location_selected of MainWindow.open_map_for_column, the slot of the
\* map dialog's locationSelected(lat, lon, tzname).
on_location_selected(f) ==
  /\ f.fn = "on_location_selected"
  /\ stack' = CASE f.pc = "start" ->
                     Call(f, "sync", Frame("set_timezone", f.c, f.tz, f.name, <<0, 0>>))
                [] f.pc = "sync" ->
                     Call(f, "done", Frame("_sync_from", f.c, None, <<>>, <<0, 0>>))
                [] OTHER -> Rest
  /\ UNCHANGED <<today, file, dicts, win, col, dlg, ui, crashed, conv, lk, ld, pt>>

(***************************************************************************)
(* What the user does.  The event loop takes an event when no handler      *)
(* runs; the Known Locations dialog is modal.                              *)
(***************************************************************************)
Ready == stack = <<>> /\ ~crashed /\ ~dlg.open

\* The user changes the time shown in column c to t.
UserEditsTime(c, t) ==
  /\ Ready /\ t # col[c].time_edit
  /\ col' = [col EXCEPT ![c].time_edit = t]
  /\ stack' = <<Frame("_on_time_changed", c, None, <<>>, <<0, 0>>)>>
  /\ ui' = StartOf("time", c, <<>>)
  /\ UNCHANGED <<today, file, dicts, win, dlg, crashed, conv, lk, ld, pt>>

\* The user picks zone z in the dropdown of column c.
UserPicksTimezone(c, z) ==
  /\ Ready /\ <<z>> # col[c].tz_combo
  /\ col' = [col EXCEPT ![c].tz_combo = <<z>>]
  /\ stack' = <<Frame("_on_tz_combo_changed", c, None, <<z>>, <<0, 0>>)>>
  /\ ui' = StartOf("tz", c, <<>>)
  /\ UNCHANGED <<today, file, dicts, win, dlg, crashed, conv, lk, ld, pt>>

\* The user types text into the location field of column c and leaves it.
UserEntersLocation(c, text) ==
  /\ Ready
  /\ col' = [col EXCEPT ![c].location_edit = text]
  /\ stack' = <<Frame("_on_location_entered", c, None, <<>>, <<0, 0>>)>>
  /\ ui' = StartOf("location", c, text)
  /\ UNCHANGED <<today, file, dicts, win, dlg, crashed, conv, lk, ld, pt>>

\* The user opens the map from column c, clicks a place that TimezoneFinder
\* resolves to zone z, and presses "Use Selected Location".
UserPicksOnMap(c, z) ==
  /\ Ready
  /\ stack' = <<Frame("on_location_selected", c, PyStr(<<z>>), <<z>>, <<0, 0>>)>>
  /\ ui' = StartOf("map", c, <<>>)
  /\ UNCHANGED <<today, file, dicts, win, col, dlg, crashed, conv, lk, ld, pt>>

\* A step of the innermost running handler.
Step ==
  \/ stack # <<>> /\ _on_time_changed(Top)
  \/ stack # <<>> /\ _on_tz_combo_changed(Top)
  \/ stack # <<>> /\ _sync_from(Top)
  \/ stack # <<>> /\ set_time(Top)
  \/ stack # <<>> /\ set_timezone(Top)
  \/ stack # <<>> /\ _on_location_entered(Top)
  \/ stack # <<>> /\ on_location_selected(Top)

\* The inputs of the window's specifications.
GuiDates == {66}
TimeChoices == {<<2, 30>>, <<23, 30>>}
ComboChoices == {"America/New_York"}
MapChoices == {"America/Los_Angeles"}
GuiTexts ==
  { <<" ">>, <<" ", "A", " ">>, <<"b">>, <<"c">>, <<"d">>, <<"e">>,
    <<" ", " ", "delhi, india", " ", " ">> }

StoredFile ==
  [exists |-> TRUE, readable |-> TRUE,
   content |-> JsonObject(<< <<<<"a">>, PyStr(<<"Europe/London">>)>>,
                             <<<<"A">>, PyStr(<<"UTC">>)>>,
                             <<<<"b">>, PyStr(<<"Not/AZone">>)>>,
                             <<<<"c">>, PyInt(<<"5">>)>>,
                             <<<<"d">>, PyStr(<<>>)>>,
                             <<<<"e">>, PyStr(<<"utc">>)>> >>)]
GuiFiles == {StoredFile}

\* TimeColumn.__init__ and what MainWindow.__init__ does to the column:
\* the left one gets set_timezone("UTC", "UTC") and set_time(now), the right
\* one the time _sync_from_left converts to.
NewColumn(c, now) ==
  [known_locations |-> 1, current_tz |-> PyStr(<<"UTC">>),
   suppress_signals |-> FALSE, tz_combo |-> <<"UTC">>,
   location_edit |-> IF c = "left" THEN <<"UTC">> ELSE <<>>,
   time_edit |-> IF c = "left" THEN now
                 ELSE _convert_time(now[1], now[2], PyStr(<<"UTC">>), PyStr(<<"UTC">>))]

\* The state MainWindow.__init__ leaves.
InitGui ==
  /\ today \in GuiDates
  /\ file \in GuiFiles
  /\ dicts = <<load_known_locations(file)>>
  /\ win = [known_locations |-> 1]
  /\ \E now \in TimeChoices : col = [c \in Columns |-> NewColumn(c, now)]
  /\ dlg = [open |-> FALSE]
  /\ stack = <<>> /\ ui = StartOf("none", "left", <<>>) /\ crashed = FALSE
  /\ conv = convIdle /\ lk = lkIdle /\ ld = ldIdle /\ pt = ptIdle

NextGui ==
  \/ \E c \in Columns : \E t \in TimeChoices : UserEditsTime(c, t)
  \/ \E c \in Columns : \E z \in ComboChoices : UserPicksTimezone(c, z)
  \/ \E c \in Columns : \E text \in GuiTexts : UserEntersLocation(c, text)
  \/ \E c \in Columns : \E z \in MapChoices : UserPicksOnMap(c, z)
  \/ Step

SpecGui == InitGui /\ [][NextGui]_vars

(***************************************************************************)
(* The Known Locations dialog.  Its table is a sequence of rows, each the  *)
(* texts of the two items of the row.  The names in it are single tokens.  *)
(***************************************************************************)
\* The lower-case tokens in the order of Python's str comparison.
LowerOrder ==
  << "a", "america/chicago", "america/los_angeles", "america/new_york",
     "asia/kolkata", "asia/tokyo", "atlantis", "australia/lord_howe",
     "australia/sydney", "b", "berlin, germany", "c", "chicago, usa", "d",
     "delhi, india", "dublin, ireland", "e", "europe/berlin", "europe/dublin",
     "europe/london", "europe/paris", "london, uk", "los angeles, usa",
     "new location", "new york, usa", "not/azone", "paris, france",
     "sydney, australia", "tokyo, japan", "utc" >>

\* The place of a lower-case name in that order; "" comes first.
StrRank(s) ==
  IF s = <<>> THEN 0 ELSE CHOOSE i \in 1..Len(LowerOrder) : LowerOrder[i] = s[1]

\* sorted(items, key=lambda x: x[0].lower()): a stable sort.
RECURSIVE sorted_by_lower(_)
sorted_by_lower(items) ==
  IF items = <<>> THEN <<>>
  ELSE LET last == items[Len(items)]
           head == sorted_by_lower(SubSeq(items, 1, Len(items) - 1))
           n == Cardinality({i \in 1..Len(head) :
                               StrRank(lower(head[i][1])) <= StrRank(lower(last[1]))})
       IN SubSeq(head, 1, n) \o <<last>> \o SubSeq(head, n + 1, Len(head))

\* QTableWidgetItem(v).text(): the str itself; an int is taken for the item
\* type and leaves the text empty.
ItemText(v) == IF v.t = "str" THEN v.s ELSE <<>>

\* KnownLocationsDialog.load_table.
load_table(known_locations) ==
  LET items == sorted_by_lower(known_locations)
  IN [row \in 1..Len(items) |->
        [loc |-> items[row][1], tz |-> ItemText(items[row][2])]]

\* The rows of accept's loop that pass `if loc and tz`, as (loc, tz) pairs.
RECURSIVE stripped_rows(_)
stripped_rows(table) ==
  IF table = <<>> THEN <<>>
  ELSE LET r == table[Len(table)]
           head == stripped_rows(SubSeq(table, 1, Len(table) - 1))
       IN IF strip(r.loc) # <<>> /\ strip(r.tz) # <<>>
          THEN Append(head, <<strip(r.loc), PyStr(strip(r.tz))>>)
          ELSE head

\* new_dict of KnownLocationsDialog.accept.
new_dict(table) == DictFromPairs(stripped_rows(table))

\* known_locations.clear(); known_locations.update(new_dict), on the dict
\* object d itself.
clear_and_update(d, n) == DictFromPairs(n)

MaxOpens == 1
MaxAdds == 1
MaxEdits == 1

\* write is what became of the last write of save_known_locations.
dlgClosed ==
  [open |-> FALSE, known_locations |-> 1, table |-> <<>>, result |-> "none",
   write |-> "none", opens |-> 0, adds |-> 0, edits |-> 0]

\* MainWindow.open_known_locations: KnownLocationsDialog.__init__, then exec().
open_known_locations ==
  /\ Ready /\ dlg.opens < MaxOpens
  /\ dlg' = [dlg EXCEPT !.open = TRUE, !.known_locations = win.known_locations,
                        !.table = load_table(dicts[win.known_locations]),
                        !.result = "none", !.write = "none", !.opens = @ + 1]
  /\ UNCHANGED <<today, file, dicts, win, col, stack, ui, crashed, conv, lk, ld, pt>>

\* add_location that enters the new row into the directory as well.
add_location_into_directory ==
  /\ dlg.open /\ dlg.adds < MaxAdds
  /\ dlg' = [dlg EXCEPT !.table = Append(@, [loc |-> <<"New Location">>, tz |-> <<"UTC">>]),
                        !.adds = @ + 1]
  /\ dicts' = [dicts EXCEPT ![dlg.known_locations] =
                               DictSet(@, <<"New Location">>, PyStr(<<"UTC">>))]
  /\ UNCHANGED <<today, file, win, col, stack, ui, crashed, conv, lk, ld, pt>>

\* KnownLocationsDialog.add_location.
add_location ==
  /\ dlg.open /\ dlg.adds < MaxAdds
  /\ dlg' = [dlg EXCEPT !.table = Append(@, [loc |-> <<"New Location">>, tz |-> <<"UTC">>]),
                        !.adds = @ + 1]
  /\ UNCHANGED <<today, file, dicts, win, col, stack, ui, crashed, conv, lk, ld, pt>>

\* KnownLocationsDialog.remove_selected with the rows of `rows` selected.
remove_selected(rows) ==
  /\ dlg.open /\ rows # {} /\ rows \subseteq 1..Len(dlg.table)
  /\ LET kept == SelectSeq([i \in 1..Len(dlg.table) |-> i], LAMBDA i : i \notin rows)
     IN dlg' = [dlg EXCEPT !.table = [k \in 1..Len(kept) |-> dlg.table[kept[k]]]]
  /\ UNCHANGED <<today, file, dicts, win, col, stack, ui, crashed, conv, lk, ld, pt>>

\* The user edits one cell of the table: the item gets another text.
EditCell(row, field, text) ==
  /\ dlg.open /\ dlg.edits < MaxEdits
  /\ row \in 1..Len(dlg.table)
  /\ dlg.table[row][field] # text
  /\ dlg' = [dlg EXCEPT !.table[row][field] = text, !.edits = @ + 1]
  /\ UNCHANGED <<today, file, dicts, win, col, stack, ui, crashed, conv, lk, ld, pt>>

\* KnownLocationsDialog.accept; outcome is what becomes of the write in
\* save_known_locations.  No widget of the dialog is connected to accept:
\* the step is a call of the method while the dialog is open.
accept(outcome) ==
  /\ dlg.open
  /\ dicts' = [dicts EXCEPT ![dlg.known_locations] =
                               clear_and_update(@, new_dict(dlg.table))]
  /\ file' = save_known_locations(file, dicts'[dlg.known_locations], outcome)
  /\ dlg' = [dlg EXCEPT !.open = FALSE, !.result = "accepted", !.write = outcome]
  /\ UNCHANGED <<today, win, col, stack, ui, crashed, conv, lk, ld, pt>>

\* QDialog.reject, the slot of the Close button (and of Escape).
reject ==
  /\ dlg.open
  /\ dlg' = [dlg EXCEPT !.open = FALSE, !.result = "rejected"]
  /\ UNCHANGED <<today, file, dicts, win, col, stack, ui, crashed, conv, lk, ld, pt>>

\* The inputs of the dialog's specification.
CellTexts == { <<" ">>, <<" ", "A", " ">>, <<"UTC">> }
SaveOutcomes == {"written", "not opened", "cut short"}
DlgFile ==
  [exists |-> TRUE, readable |-> TRUE,
   content |-> JsonObject(<< <<<<"b">>, PyStr(<<"Not/AZone">>)>>,
                             <<<<"a">>, PyStr(<<"Europe/London">>)>>,
                             <<<<"A">>, PyStr(<<"UTC">>)>>,
                             <<<<"c">>, PyInt(<<"5">>)>> >>)]

\* The state MainWindow.__init__ leaves, with the stored file DlgFile.
InitDlg ==
  /\ today = 66
  /\ file = DlgFile
  /\ dicts = <<load_known_locations(file)>>
  /\ win = [known_locations |-> 1]
  /\ col = [c \in Columns |-> NewColumn(c, <<23, 30>>)]
  /\ dlg = dlgClosed
  /\ stack = <<>> /\ ui = StartOf("none", "left", <<>>) /\ crashed = FALSE
  /\ conv = convIdle /\ lk = lkIdle /\ ld = ldIdle /\ pt = ptIdle

NextDlg ==
  \/ open_known_locations
  \/ add_location
  \/ \E rows \in SUBSET (1..5) : remove_selected(rows)
  \/ \E row \in 1..5 : \E field \in {"loc", "tz"} : \E text \in CellTexts :
        EditCell(row, field, text)
  \/ \E outcome \in SaveOutcomes : accept(outcome)
  \/ reject

SpecDlg == InitDlg /\ [][NextDlg]_vars

(***************************************************************************)
(* Claims about _convert_time (specification SpecConvert).                 *)
(***************************************************************************)
Valid(tz) == timezone(tz) # ""
ConvTime == <<conv.hour, conv.minute>>
ConvNaive == today * MinutesPerDay + conv.hour * 60 + conv.minute
HourMinute(n) == << (n % MinutesPerDay) \div 60, n % 60 >>

\* The zone changes its offset at an instant of [lo, hi).
ChangesIn(z, lo, hi) ==
  \E i \in 2..Len(TzData[z]) :
     /\ TzData[z][i].off # TzData[z][i - 1].off
     /\ lo <= TzData[z][i].at /\ TzData[z][i].at < hi

\* The wall-clock time dt of zone z is skipped by a spring-forward
\* transition; GapSize is by how much the clock jumps there.
InGap(z, dt) ==
  \E i \in 2..Len(TzData[z]) :
     /\ TzData[z][i].at + TzData[z][i - 1].off <= dt
     /\ dt < TzData[z][i].at + TzData[z][i].off
GapSize(z, dt) ==
  LET i == CHOOSE i \in 2..Len(TzData[z]) :
             /\ TzData[z][i].at + TzData[z][i - 1].off <= dt
             /\ dt < TzData[z][i].at + TzData[z][i].off
  IN TzData[z][i].off - TzData[z][i - 1].off

\* C1: when at least one of the two zone ids is not resolvable in the
\* timezone database, _convert_time returns exactly the (hour, minute) it
\* was given.
C1_UnresolvableZoneFailsClosed ==
  (conv.pc # "args" /\ (~Valid(conv.from_tz) \/ ~Valid(conv.to_tz)))
     => conv.res = ConvTime

C1_Witness ==
  /\ conv.pc = "there"
  /\ ~Valid(conv.from_tz) /\ timezone(conv.to_tz) = "Asia/Kolkata"
  /\ conv.hour = 23 /\ conv.minute = 30 /\ conv.res = <<23, 30>>

\* C2 as stated: converting a valid zone to itself returns the time it was
\* given, on every date and for every wall-clock time, a time in a
\* spring-forward gap included.
C2_IdentityEveryTime ==
  (conv.pc # "args" /\ Valid(conv.from_tz) /\ conv.to_tz = conv.from_tz)
     => conv.res = ConvTime

\* C2 amended: converting a valid zone to itself returns the time it was
\* given whenever that wall-clock time exists in the zone on the current
\* date (a time of a fall-back overlap included); a time inside a
\* spring-forward gap comes back moved forward by the size of the gap.
C2_IdentityOutsideGap ==
  (conv.pc # "args" /\ Valid(conv.from_tz) /\ conv.to_tz = conv.from_tz)
     => conv.res = IF InGap(timezone(conv.from_tz), ConvNaive)
                   THEN HourMinute(ConvNaive + GapSize(timezone(conv.from_tz), ConvNaive))
                   ELSE ConvTime

C2_Witness ==
  /\ conv.pc = "there" /\ today = 66
  /\ timezone(conv.from_tz) = "America/New_York" /\ conv.to_tz = conv.from_tz
  /\ conv.hour = 2 /\ conv.minute = 30 /\ conv.res = <<3, 30>>
  /\ InGap("America/New_York", ConvNaive)

\* C3 as stated: for valid zones that have no daylight-saving transition on
\* the current date, converting there and back gives the original time.
NoTransitionOnCurrentDate(z) ==
  \A i \in 2..Len(TzData[z]) :
     \* neither on the UTC date nor on the zone's own calendar date
     /\ TzData[z][i].at \div MinutesPerDay # today
     /\ (TzData[z][i].at + TzData[z][i].off) \div MinutesPerDay # today
     /\ (TzData[z][i].at + TzData[z][i - 1].off) \div MinutesPerDay # today

C3_RoundTripNoTransitionToday ==
  (/\ conv.pc = "back" /\ Valid(conv.from_tz) /\ Valid(conv.to_tz)
   /\ NoTransitionOnCurrentDate(timezone(conv.from_tz))
   /\ NoTransitionOnCurrentDate(timezone(conv.to_tz)))
     => conv.back = ConvTime

\* The zone keeps one offset from the start of the day before the current
\* UTC date to the end of the day after it.
Stable(z) ==
  ~ChangesIn(z, (today - 1) * MinutesPerDay, (today + 2) * MinutesPerDay)

\* C3 amended: for valid zones whose offsets do not change from the day
\* before the current UTC date to the day after it, converting there and
\* back gives the original time.
C3_RoundTripStableZones ==
  (/\ conv.pc = "back" /\ Valid(conv.from_tz) /\ Valid(conv.to_tz)
   /\ Stable(timezone(conv.from_tz)) /\ Stable(timezone(conv.to_tz)))
     => conv.back = ConvTime

C3_Witness ==
  /\ conv.pc = "back" /\ today = 195
  /\ timezone(conv.from_tz) = "America/Los_Angeles"
  /\ timezone(conv.to_tz) = "Asia/Kolkata"
  /\ Stable("America/Los_Angeles") /\ Stable("Asia/Kolkata")
  /\ ConvTime = <<23, 30>> /\ conv.res = <<12, 0>> /\ conv.back = <<23, 30>>

\* The offset of a zone on the current UTC date, for a zone that has one.
OneOffsetToday(z) ==
  ~ChangesIn(z, today * MinutesPerDay, (today + 1) * MinutesPerDay)
OffsetToday(z) == TransitionInfo(z, today * MinutesPerDay).off

ByOffsets(offA, offB) ==
  HourMinute((60 * conv.hour + conv.minute - offA + offB) % MinutesPerDay)

\* C4 as stated: for valid zones whose offsets on the current UTC date are
\* offA and offB, the result is the time of day 60h + m - offA + offB
\* modulo 1440.
C4_ByOffsetsOfCurrentDate ==
  (/\ conv.pc # "args" /\ Valid(conv.from_tz) /\ Valid(conv.to_tz)
   /\ OneOffsetToday(timezone(conv.from_tz))
   /\ OneOffsetToday(timezone(conv.to_tz)))
     => conv.res = ByOffsets(OffsetToday(timezone(conv.from_tz)),
                             OffsetToday(timezone(conv.to_tz)))

\* C4 amended: the result is always a time of day (hour 0-23, minute 0-59);
\* for valid zones whose offsets offA and offB do not change from the day
\* before the current UTC date to the day after it, it is the time of day
\* 60h + m - offA + offB modulo 1440, wrapping around midnight either way.
C4_ByOffsetsOfStableZones ==
  conv.pc # "args" =>
    /\ conv.res[1] \in 0..23 /\ conv.res[2] \in 0..59
    /\ (/\ Valid(conv.from_tz) /\ Valid(conv.to_tz)
        /\ Stable(timezone(conv.from_tz)) /\ Stable(timezone(conv.to_tz)))
          => conv.res = ByOffsets(OffsetToday(timezone(conv.from_tz)),
                                  OffsetToday(timezone(conv.to_tz)))

C4_Witness ==
  /\ conv.pc = "there" /\ today = 14
  /\ timezone(conv.from_tz) = "America/Los_Angeles"
  /\ timezone(conv.to_tz) = "Asia/Kolkata"
  /\ ConvTime = <<23, 30>> /\ conv.res = <<13, 0>>

(***************************************************************************)
(* Claims about the location directory (SpecLookup, SpecLoad).             *)
(***************************************************************************)
\* t is text without the whitespace at its ends.
IsTrimOf(t, text) ==
  /\ \E a \in 0..Len(text) : \E b \in 0..Len(text) :
        /\ a + Len(t) + b = Len(text)
        /\ \A i \in 1..Len(text) :
              IF i <= a \/ i > a + Len(t) THEN text[i] = " " ELSE text[i] = t[i - a]
  /\ t # <<>> => (t[1] # " " /\ t[Len(t)] # " ")

SameIgnoringCase(x, y) ==
  /\ Len(x) = Len(y)
  /\ \A i \in 1..Len(x) : LowerTok(x[i]) = LowerTok(y[i])

\* The entries whose name equals the trimmed text, case ignored.
Matching(text, known_locations) ==
  {i \in 1..Len(known_locations) :
     \E t \in {SubSeq(text, a, b) : a \in 1..Len(text) + 1, b \in 0..Len(text)} :
        IsTrimOf(t, text) /\ SameIgnoringCase(known_locations[i][1], t)}

\* C5: the lookup returns the timezone id and the stored name of the first
\* entry, in iteration order, whose name equals the trimmed text with case
\* ignored, and (None, None) exactly when there is no such entry: a prefix
\* or a substring of a name does not match.
C5_FirstExactMatch ==
  lk.pc = "done" =>
    LET hits == Matching(lk.text, lk.known_locations)
    IN IF hits = {} THEN lk.result = <<None, None>>
       ELSE \E i \in hits :
              /\ \A j \in hits : i <= j
              /\ lk.result = <<lk.known_locations[i][2], PyStr(lk.known_locations[i][1])>>

C5_Witness ==
  /\ lk.pc = "done"
  /\ lk.text = <<" ", "a", " ">>
  /\ lk.known_locations = << <<<<"a", "b">>, PyStr(<<"UTC">>)>>,
                             <<<<"A">>, PyStr(<<"Asia/Kolkata">>)>> >>
  /\ lk.result = <<PyStr(<<"Asia/Kolkata">>), PyStr(<<"A">>)>>

\* The stored document is a flat mapping of strings to strings.
FlatStringMapping(f) ==
  /\ f.exists /\ f.readable /\ f.content.k = "object"
  /\ \A i \in 1..Len(DictFromPairs(f.content.items)) :
        DictFromPairs(f.content.items)[i][2].t = "str"

\* C6: load_known_locations returns the ten default entries whenever the
\* file is missing, unreadable or does not hold a flat mapping of strings to
\* strings, and the stored mapping only when it holds one.
C6_DefaultUnlessFlatMapping ==
  ld.pc = "done" =>
    ld.result = IF FlatStringMapping(file) THEN DictFromPairs(file.content.items)
                ELSE DEFAULT_KNOWN_LOCATIONS

(***************************************************************************)
(* Claims about the two columns (specification SpecGui).                   *)
(***************************************************************************)
Directory(c) == dicts[col[c].known_locations]

\* Some entry of directory d has the name text, trimmed and ignoring case.
SomeEntryMatches(text, d) ==
  \E i \in 1..Len(d) : lower(d[i][1]) = lower(strip(text))

\* The timezone value of the first entry of d that text names.
FirstMatchValue(text, d) ==
  d[CHOOSE i \in 1..Len(d) :
       /\ lower(d[i][1]) = lower(strip(text))
       /\ \A j \in 1..(i - 1) : lower(d[j][1]) # lower(strip(text))][2]

\* The text names an entry that carries a timezone value.
Recognised(text, d) ==
  /\ strip(text) # <<>>
  /\ SomeEntryMatches(text, d)
  /\ FirstMatchValue(text, d) # PyStr(<<>>)

\* The last user action changes the time or the timezone of its column.
ChangesColumn ==
  \/ ui.kind \in {"time", "tz", "map"}
  \/ ui.kind = "location" /\ Recognised(ui.text, Directory(ui.c))

\* What column y shows is the time of the other column, converted.
ShowsConverted(y) ==
  LET x == Other(y)
  IN col[y].time_edit = _convert_time(col[x].time_edit[1], col[x].time_edit[2],
                                      col[x].current_tz, col[y].current_tz)

C7_OtherColumnShowsConverted ==
  (stack = <<>> /\ ChangesColumn) => ShowsConverted(Other(ui.c))

\* The handlers of an action on X leave X's time and Y's timezone alone, and
\* so does the action itself, but for the time the user typed.
C7_LeavesOwnTimeAndOtherZone ==
  /\ col'[Other(ui'.c)].current_tz = col[Other(ui'.c)].current_tz
  /\ (stack # <<>> \/ ui'.kind # "time") =>
        col'[ui'.c].time_edit = col[ui'.c].time_edit

\* C7: once the handling of a user action that changes the time or the
\* timezone of column X (time edit, dropdown change, recognised location
\* entry, map selection) is over, column Y shows
\* _convert_time(X.time, X.timezone, Y.timezone), and the action changed
\* neither X's displayed time nor Y's timezone; after every sequence of
\* such actions on either column.
C7_SyncOntoOtherColumn ==
  []C7_OtherColumnShowsConverted /\ [][C7_LeavesOwnTimeAndOtherZone]_vars

\* The same for the actions whose handlers returned normally.
C7_SyncWhenHandlersReturn ==
  [](~crashed => C7_OtherColumnShowsConverted)
    /\ [][C7_LeavesOwnTimeAndOtherZone]_vars

\* A location entry whose handler has returned after one sync that moved
\* the other column's time.
C7_ReturnedWitness ==
  /\ stack = <<>> /\ ~crashed /\ ui.kind = "location" /\ ui.syncs = 1
  /\ col[ui.c].current_tz = PyStr(<<"Europe/London">>)
  /\ col[Other(ui.c)].current_tz = PyStr(<<"America/New_York">>)
  /\ col[Other(ui.c)].time_edit # col[ui.c].time_edit

\* How many syncs the last user action calls for: one when it changes the
\* time or the timezone of its column and its handler returns, none when
\* the text is not recognised or the update raised.
SyncsDue ==
  IF ChangesColumn /\ ~crashed THEN 1 ELSE 0

\* The running handler stands where it has a next step to take.
CanStep ==
  /\ ~crashed
  /\ Top.fn \in {"_on_time_changed", "_on_tz_combo_changed", "_sync_from", "set_time",
                 "set_timezone", "_on_location_entered", "on_location_selected"}
  /\ Top.fn = "_on_location_entered" => Top.pc \in {"start", "after_combo", "emitted"}

C8_NoEmissionOneSync ==
  /\ ui.prog_emits = 0
  /\ stack # <<>> => CanStep
  /\ ui.syncs <= 1 /\ ui.emits <= 1
  /\ stack = <<>> =>
       /\ ui.syncs = SyncsDue
       /\ \A c \in Columns : ~col[c].suppress_signals

\* The steps frame f still has to take, those of the handlers it will call
\* included, when a handler called during a programmatic update returns at
\* once.
Remaining(f) ==
  CASE f.fn \in {"_on_time_changed", "_on_tz_combo_changed"} ->
         IF f.pc = "start" /\ ~col[f.c].suppress_signals THEN 7 ELSE 1
    [] f.fn = "_sync_from" -> IF f.pc = "start" THEN 5 ELSE 1
    [] f.fn \in {"set_time", "set_timezone"} -> IF f.pc = "start" THEN 3 ELSE 1
    [] f.fn = "_on_location_entered" ->
         IF f.pc = "start" THEN 9 ELSE IF f.pc = "after_combo" THEN 7 ELSE 1
    [] f.fn = "on_location_selected" ->
         IF f.pc = "start" THEN 11 ELSE IF f.pc = "sync" THEN 7 ELSE 1

\* The steps the handlers on the stack still have to take, at most.
StepsLeft ==
  LET RECURSIVE Sum(_)
      Sum(i) == IF i = 0 THEN 0 ELSE Remaining(stack[i]) + Sum(i - 1)
  IN Sum(Len(stack))

\* A step brings the chain of handlers nearer to its end.
C8_ChainProgresses ==
  stack # <<>> => StepsLeft' < StepsLeft

\* C8: a set_time or set_timezone done by a sync or by a map selection
\* never emits the column's timeChanged or timezoneChanged, so a user action
\* triggers one sync onto the other column, never a second one, and the
\* chain of handlers comes to its end (every step of the chain lowers a
\* bound on the steps left); when every handler has returned both
\* suppress_signals flags are false again, also when the update raised.
C8_SuppressedUpdatesTerminate ==
  []C8_NoEmissionOneSync /\ [][C8_ChainProgresses]_vars

\* A time edit whose sync has moved the other column to another time: the
\* time_edit of that column did emit, inside set_time.
C8_Witness ==
  /\ stack = <<>> /\ ~crashed /\ ui.kind = "time" /\ ui.syncs = 1
  /\ col[ui.c].current_tz = PyStr(<<"America/New_York">>)
  /\ col[Other(ui.c)].current_tz = PyStr(<<"America/Los_Angeles">>)
  /\ col[ui.c].time_edit = <<2, 30>>
  /\ col[Other(ui.c)].time_edit = <<23, 30>>

\* The update of a location entry has raised.
C8_RaisedWitness ==
  /\ crashed /\ stack = <<>> /\ ui.kind = "location"
  /\ col[ui.c].current_tz = PyInt(<<"5">>)

\* The fields of the window that a rejected location text must leave alone.
Kept(c) ==
  <<col[c].current_tz, col[c].tz_combo, col[c].time_edit, col[c].suppress_signals>>

C9_Rejected ==
  /\ ui'.kind = "location"
  /\ \/ strip(ui'.text) = <<>>
     \/ ~SomeEntryMatches(ui'.text, Directory(ui'.c))

C9_NothingElseChanges ==
  C9_Rejected =>
    /\ \A c \in Columns : Kept(c)' = Kept(c)
    /\ col'[Other(ui'.c)] = col[Other(ui'.c)]
    /\ stack # <<>> => col'[ui'.c].location_edit = col[ui'.c].location_edit
    /\ dicts' = dicts /\ file' = file /\ win' = win
    /\ ui'.emits = 0 /\ ui'.syncs = 0
    /\ ~crashed'

C9_WarningShown ==
  (stack = <<>> /\ ui.kind = "location") =>
    /\ (strip(ui.text) # <<>> /\ ~SomeEntryMatches(ui.text, Directory(ui.c)))
          => ui.warnings = 1
    /\ strip(ui.text) = <<>> => ui.warnings = 0

\* C9: a non-empty location text that matches no directory entry gets a
\* warning and changes nothing else: the column's timezone and dropdown
\* selection, both displayed times and the directory stay as they were and no
\* timezoneChanged (so no sync) is emitted; empty or whitespace-only text
\* does nothing at all.
C9_UnknownLocationOnlyWarns ==
  []C9_WarningShown /\ [][C9_NothingElseChanges]_vars

\* An unknown text, with blanks around it, has been rejected in a column
\* that is on another zone and another time than the other column.
C9_Witness ==
  /\ stack = <<>> /\ ui.kind = "location" /\ ui.warnings = 1
  /\ ui.text = <<" ", " ", "delhi, india", " ", " ">>
  /\ col[ui.c].location_edit = ui.text
  /\ col[ui.c].current_tz = PyStr(<<"America/New_York">>)
  /\ col[ui.c].time_edit # col[Other(ui.c)].time_edit

(***************************************************************************)
(* Claims about the Known Locations dialog (specification SpecDlg).        *)
(***************************************************************************)
\* The rows of the table that count: trimmed name and timezone not empty.
KeptRows(table) ==
  {i \in 1..Len(table) : strip(table[i].loc) # <<>> /\ strip(table[i].tz) # <<>>}

\* The last row that counts for each name decides the name's timezone.
DecidingRows(table) ==
  {i \in KeptRows(table) :
     \A j \in KeptRows(table) : j > i => strip(table[j].loc) # strip(table[i].loc)}

\* The first row that counts and carries the name.
FirstRowOf(table, name) ==
  CHOOSE i \in KeptRows(table) :
     /\ strip(table[i].loc) = name
     /\ \A j \in KeptRows(table) : strip(table[j].loc) = name => i <= j

\* Dict d is the mapping built from the rows of table in row order.
BuiltFromRows(d, table) ==
  /\ \A i, j \in 1..Len(d) : d[i][1] = d[j][1] => i = j
  /\ {d[i] : i \in 1..Len(d)} =
        {<<strip(table[i].loc), PyStr(strip(table[i].tz))>> : i \in DecidingRows(table)}
  /\ \A i, j \in 1..Len(d) :
        i < j => FirstRowOf(table, d[i][1]) < FirstRowOf(table, d[j][1])

\* The step is an accept of the dialog.
Accepting == dlg.open /\ ~dlg'.open /\ dlg'.result = "accepted"

\* The one dict object of the window, its columns and the dialog holds the
\* mapping of the table after the accept.
C10_DirectoryReplaced ==
  /\ Len(dicts') = 1
  /\ win'.known_locations = 1 /\ dlg.known_locations = 1
  /\ \A c \in Columns : col'[c].known_locations = 1
  /\ BuiltFromRows(dicts'[1], dlg.table)

\* C10: on every accept of the Known Locations dialog the in-memory
\* directory, the one mapping object the main window and both columns share,
\* becomes the mapping built from the table rows in row order, of the rows
\* whose trimmed name and trimmed timezone are both non-empty, a later row
\* overwriting an earlier one of the same name and names that differ in case
\* staying apart, and the storage file is overwritten with that mapping.
C10_AcceptReplacesDirectoryAndFile ==
  [][Accepting =>
       /\ C10_DirectoryReplaced
       /\ file'.exists /\ file'.content = JsonObject(dicts'[1])]_vars

\* What the accept has done to the storage file, by what became of the
\* write: a write that succeeded has left the file holding the new mapping
\* and nothing else; a file that could not be opened is as it was; a write
\* that failed after the file was opened has left a file that holds no
\* mapping.
C10_FileAfterWrite ==
  CASE dlg'.write = "written" ->
         /\ file'.exists /\ file'.content = JsonObject(dicts'[1])
         /\ file'.readable => load_known_locations(file') = dicts'[1]
    [] dlg'.write = "not opened" -> file' = file
    [] dlg'.write = "cut short" ->
         /\ file'.exists /\ json_load(file'.content).t # "dict"
    [] OTHER -> FALSE

\* C10 amended: on every run of accept the in-memory directory is replaced
\* as C10 says; the storage file is overwritten with that same mapping
\* when the write succeeds, and a write that fails is ignored: the file is
\* then as it was, or holds no mapping when it had been opened for
\* writing, and the in-memory directory is replaced all the same.
C10_AcceptReplacesDirectoryFileIfWritable ==
  [][Accepting => (C10_DirectoryReplaced /\ C10_FileAfterWrite)]_vars

\* An accept of the rows a -> Europe/London, A -> UTC, " A " -> Not/AZone
\* and c with an empty timezone: the second A has won, a has stayed apart,
\* c has been dropped, and the file holds the same.
C10_Witness ==
  /\ ~dlg.open /\ dlg.result = "accepted" /\ Len(dlg.table) = 4
  /\ dlg.table[3].loc = <<" ", "A", " ">>
  /\ dicts[1] = << <<<<"a">>, PyStr(<<"Europe/London">>)>>,
                   <<<<"A">>, PyStr(<<"Not/AZone">>)>> >>
  /\ dlg.write = "written" /\ file.content = JsonObject(dicts[1])
  /\ file # DlgFile

\* An accept whose write did not go through.
C10_UnwrittenWitness ==
  /\ ~dlg.open /\ dlg.result = "accepted" /\ dlg.write = "not opened"
  /\ file = DlgFile /\ dicts[1] # DictFromPairs(DlgFile.content.items)

(***************************************************************************)
(* Claims about parse_time_string (specification SpecParse).               *)
(***************************************************************************)
AllDigits(s) == \A i \in 1..Len(s) : IsDigit(s[i])

\* The number a text of digits stands for.
RECURSIVE Decimal(_)
Decimal(s) ==
  IF s = <<>> THEN 0
  ELSE 10 * Decimal(SubSeq(s, 1, Len(s) - 1)) + DigitValue(s[Len(s)])

Meridiems == { <<x, y>> : x \in {"a", "A", "p", "P"}, y \in {"m", "M"} }
IsPm(ap) == ap[1] \in {"p", "P"}

\* The hour of the day of hour h of the 12-hour clock.
HourOfDay(h, ap) == (h % 12) + (IF IsPm(ap) THEN 12 ELSE 0)

\* The times text s spells on the 24-hour clock, its hour and its minute of
\* hlen and mlen digits.
Reads24(s, hlen, mlen) ==
  { <<Decimal(SubSeq(s, 1, hlen)), Decimal(SubSeq(s, hlen + 2, Len(s)))>> : x \in
      { x \in {1} :
          /\ Len(s) = hlen + 1 + mlen /\ s[hlen + 1] = ":"
          /\ AllDigits(SubSeq(s, 1, hlen)) /\ AllDigits(SubSeq(s, hlen + 2, Len(s)))
          /\ Decimal(SubSeq(s, 1, hlen)) \in 0..23
          /\ Decimal(SubSeq(s, hlen + 2, Len(s))) \in 0..59 } }

\* The times text s spells on the 12-hour clock, with blanks many blanks
\* before the meridiem.
Reads12(s, hlen, mlen, blanks) ==
  { <<HourOfDay(Decimal(SubSeq(s, 1, hlen)), SubSeq(s, Len(s) - 1, Len(s))),
      Decimal(SubSeq(s, hlen + 2, hlen + 1 + mlen))>> : x \in
      { x \in {1} :
          /\ Len(s) = hlen + 1 + mlen + blanks + 2 /\ s[hlen + 1] = ":"
          /\ AllDigits(SubSeq(s, 1, hlen))
          /\ AllDigits(SubSeq(s, hlen + 2, hlen + 1 + mlen))
          /\ \A i \in 1..blanks : s[hlen + 1 + mlen + i] = " "
          /\ SubSeq(s, Len(s) - 1, Len(s)) \in Meridiems
          /\ Decimal(SubSeq(s, 1, hlen)) \in 1..12
          /\ Decimal(SubSeq(s, hlen + 2, hlen + 1 + mlen)) \in 0..59 } }

\* The forms the claim names: HH:MM, and HH:MM AM/PM with or without a space.
Form24(s) == Reads24(s, 2, 2)
Form12(s) == Reads12(s, 2, 2, 0) \cup Reads12(s, 2, 2, 1)

\* Every time the text can be read as, one-digit hours and minutes and
\* several blanks included.
Readings(s) ==
  UNION { Reads24(s, hl, ml) : hl \in 1..2, ml \in 1..2 }
    \cup UNION { Reads12(s, hl, ml, b) : hl \in 1..2, ml \in 1..2, b \in 0..Len(s) }

Chars_1145pm == <<"1", "1", ":", "4", "5", "p", "m">>
Chars_1145_PM == <<"1", "1", ":", "4", "5", " ", "P", "M">>

\* A text that spells no time is rejected and no other time than the one
\* spelled is returned.
C11_RejectsTheRest ==
  pt.pc = "done" =>
    /\ pt.result # None => pt.result.s \in Readings(strip(pt.time_str))
    /\ Readings(strip(pt.time_str)) = {} => pt.result = None

\* C11: parse_time_string accepts the 24-hour form HH:MM and the 12-hour
\* forms HH:MM AM/PM and HH:MMAM/PM (any letter case, with or without a
\* space) and returns the hour (0-23) and minute (0-59) they spell, so that
\* "11:45pm" and "11:45 PM" both give (23, 45); a text that cannot be parsed,
\* such as "25:00" or the empty text, gives None.
C11_AcceptsAllForms ==
  /\ C11_RejectsTheRest
  /\ pt.pc = "done" =>
       /\ \A t \in Form24(strip(pt.time_str)) \cup Form12(strip(pt.time_str)) :
             pt.result = PyTuple(t)
       /\ strip(pt.time_str) \in {Chars_1145pm, Chars_1145_PM}
             => pt.result = PyTuple(<<23, 45>>)

\* The same with the form that goes with use_24h: HH:MM when it is true,
\* the 12-hour forms when it is false; a text in the other form gives None.
C11_AcceptsFormOfMode ==
  /\ C11_RejectsTheRest
  /\ pt.pc = "done" =>
       /\ \A t \in Form24(strip(pt.time_str)) :
             pt.result = IF pt.use_24h THEN PyTuple(t) ELSE None
       /\ \A t \in Form12(strip(pt.time_str)) :
             pt.result = IF pt.use_24h THEN None ELSE PyTuple(t)
       /\ (~pt.use_24h /\ strip(pt.time_str) \in {Chars_1145pm, Chars_1145_PM})
             => pt.result = PyTuple(<<23, 45>>)

\* "11:45pm" with blanks around it has been parsed as a 12-hour text.
C11_Witness ==
  /\ pt.pc = "done" /\ ~pt.use_24h
  /\ pt.time_str = <<" ">> \o Chars_1145pm \o <<" ">>
  /\ pt.result = PyTuple(<<23, 45>>)

\* "25:00" has been rejected as a 24-hour text.
C11_RejectedWitness ==
  /\ pt.pc = "done" /\ pt.use_24h
  /\ pt.time_str = <<"2", "5", ":", "0", "0">> /\ pt.result = None

\* The step adds rows to the table of the open dialog or removes rows from
\* it (a cell edit counts in dlg.edits).
AddsOrRemoves ==
  /\ dlg.open /\ dlg'.open
  /\ Len(dlg'.table) # Len(dlg.table)

\* The directory a lookup of either column reads is the same dict object with
\* the same entries, and the file is the same.
C12_DirectoryKept ==
  /\ dicts' = dicts /\ file' = file
  /\ \A c \in Columns : col'[c].known_locations = col[c].known_locations

C12_OnlyTable ==
  /\ <<today, file, dicts, win, col, stack, ui, crashed>>'
        = <<today, file, dicts, win, col, stack, ui, crashed>>
  /\ [dlg' EXCEPT !.table = <<>>, !.adds = 0] = [dlg EXCEPT !.table = <<>>, !.adds = 0]

\* C12: add_location and remove_selected change the table of the dialog
\* and nothing else; from the opening of the dialog until accept runs, and
\* when the dialog is closed by Close (reject), whatever was added, removed
\* or edited, the in-memory directory and the storage file stay as they
\* were, so a location lookup gives afterwards what it gave before.
C12_OnlyAcceptTouchesDirectory ==
  [][/\ ~Accepting => C12_DirectoryKept
     /\ AddsOrRemoves => C12_OnlyTable]_vars

\* The dialog has been closed by Close after a row was added, a cell edited
\* and two rows removed; directory and file are those of the start.
C12_Witness ==
  /\ ~dlg.open /\ dlg.result = "rejected"
  /\ dlg.adds = 1 /\ dlg.edits = 1 /\ Len(dlg.table) = 3
  /\ dlg.table # load_table(dicts[1])
  /\ dicts[1] = DictFromPairs(DlgFile.content.items)
  /\ file = DlgFile

(***************************************************************************)
(* The zone a column converts with and the zone its dropdown shows         *)
(* (specification SpecGui).                                                *)
(***************************************************************************)
\* The value is a zone id spelled as in the list the dropdown was filled with.
InZoneList(v) == v.t = "str" /\ Len(v.s) = 1 /\ v.s[1] \in all_timezones

\* No handler is running and none has been left by an exception.
AtRest == stack = <<>> /\ ~crashed

\* C13: in every state reached after startup and any sequence of user
\* actions (dropdown changes, location entries against any directory
\* contents, map selections), the current_tz of each column, which the
\* conversion uses, is the zone selected in the column's dropdown, and so a
\* member of the timezone list the dropdown was filled with.
C13_CurrentTzIsDropdownZone ==
  AtRest =>
    \A c \in Columns :
       /\ col[c].current_tz = PyStr(col[c].tz_combo)
       /\ InZoneList(col[c].current_tz)

\* When no handler runs, the dropdown of each column shows a zone of the
\* list, and current_tz is that zone whenever current_tz is itself spelled
\* as an item of the list.
C13_ListedZoneIsShown ==
  AtRest =>
    \A c \in Columns :
       /\ InZoneList(PyStr(col[c].tz_combo))
       /\ InZoneList(col[c].current_tz) => col[c].current_tz = PyStr(col[c].tz_combo)

\* A step that gives a column another current_tz puts the dropdown on it
\* when the value is an item of the list, and leaves the dropdown on the
\* zone it showed when the value is none.
C13_UnlistedValueKeepsDropdown ==
  \A c \in Columns :
     col'[c].current_tz # col[c].current_tz =>
        IF InZoneList(col'[c].current_tz)
        THEN PyStr(col'[c].tz_combo) = col'[c].current_tz
        ELSE col'[c].tz_combo = col[c].tz_combo

\* C13 amended: in every state reached after startup and any sequence of
\* user actions the dropdown of each column shows a member of the timezone
\* list, and current_tz equals that zone whenever current_tz is itself an
\* item of the list; a value that is no item of the list, such as the
\* directory value of an entered location, becomes current_tz while the
\* dropdown stays on the zone it showed.
C13_DropdownFollowsListedZones ==
  []C13_ListedZoneIsShown /\ [][C13_UnlistedValueKeepsDropdown]_vars

\* The location b, stored with the timezone Not/AZone, has been entered in
\* a column whose dropdown showed America/New_York and still does.
C13_Witness ==
  /\ AtRest /\ ui.kind = "location" /\ ui.text = <<"b">> /\ ui.syncs = 1
  /\ col[ui.c].current_tz = PyStr(<<"Not/AZone">>)
  /\ col[ui.c].tz_combo = <<"America/New_York">>
  /\ col[ui.c].location_edit = <<"b">>

\* The location e, stored with the timezone utc, has been entered: utc is
\* no item of the list, the dropdown has stayed on America/New_York, and
\* the conversion has resolved utc and moved the other column's time.
C13_LowerCaseWitness ==
  /\ AtRest /\ ui.kind = "location" /\ ui.text = <<"e">> /\ ui.syncs = 1
  /\ col[ui.c].current_tz = PyStr(<<"utc">>)
  /\ col[ui.c].tz_combo = <<"America/New_York">>
  /\ col[Other(ui.c)].current_tz = PyStr(<<"America/Los_Angeles">>)
  /\ col[ui.c].time_edit = <<23, 30>> /\ col[Other(ui.c)].time_edit = <<16, 30>>

\* A map selection and a dropdown change have set both columns to zones of
\* the list.
C13_ListedWitness ==
  /\ AtRest /\ ui.kind = "map"
  /\ col[ui.c].current_tz = PyStr(<<"America/Los_Angeles">>)
  /\ col[ui.c].tz_combo = <<"America/Los_Angeles">>
  /\ col[Other(ui.c)].current_tz = PyStr(<<"America/New_York">>)

=============================================================================
